---------------------------- MODULE Spec2Model ----------------------------
(***************************************************************************)
(* Model of edge_processor.cpp: the two native entry points                *)
(*   detectDocumentContour(imagePath)              -> float[8] | null      *)
(*   enhanceAndWarp(inputPath, outputPath, polygon) -> boolean             *)
(*                                                                         *)
(* OpenCV and JNI are external.  Every call the code makes to them is      *)
(* appended to `calls`, in program order; what they return (whether the    *)
(* image decoded, the contours found and their simplified polygons,        *)
(* whether the JPEG was written) is an input chosen with \E.               *)
(*                                                                         *)
(* Numbers.  Points have integer coordinates.  contourArea is kept         *)
(* doubled (the shoelace sum, a whole number) and a distance is kept       *)
(* squared, so that `area < 1000` and `(int)hypot(..)` are exact integer   *)
(* computations.                                                           *)
(***************************************************************************)
EXTENDS Integers, Sequences, FiniteSets

VARIABLES
    pc,         \* position in the running entry point
    fn,         \* "none" | "detect" | "warp"
    calls,      \* JNI / OpenCV / log calls made so far, in order
    imgEmpty,   \* img.empty() after imread
    contours,   \* what findContours returned
    maxArea,    \* doubled: 2 * maxArea of the code
    best,       \* vector<Point> best
    coords,     \* jfloat coords[8]
    polygon,    \* the jfloatArray handed to enhanceAndWarp
    src,        \* Point2f src[4]
    maxWidth,   \* squared: maxWidth * maxWidth of the code
    maxHeight,  \* squared: maxHeight * maxHeight of the code
    dsize,      \* Size((int)maxWidth, (int)maxHeight) given to warpPerspective
    ok,         \* what imwrite returned
    result      \* what the entry point returned

vars == <<pc, fn, calls, imgEmpty, contours, maxArea, best, coords,
          polygon, src, maxWidth, maxHeight, dsize, ok, result>>

---------------------------------------------------------------------------
(* Bounds of the model *)

\* findContours returns at most this many contours
MaxContours == 2
\* corners of the polygons handed to enhanceAndWarp: x in 0..MaxX, y in 0..MaxY
MaxX == 2

MaxY == 1
\* the polygon array holds up to 8 + MaxExtra values
MaxExtra == 1
\* and, when too short, 8 - MaxShort .. 7 values (or none at all)
MaxShort == 1

---------------------------------------------------------------------------
(* Arithmetic *)

Abs(n) == IF n < 0 THEN -n ELSE n

Max(a, b) == IF a < b THEN b ELSE a

Min(a, b) == IF a < b THEN a ELSE b

\* a cv::Point / Point2f
Pt(x, y) == [x |-> x, y |-> y]

RECURSIVE SqrtSearch(_, _, _)
SqrtSearch(n, lo, hi) ==
    IF lo >= hi THEN lo
    ELSE LET mid == (lo + hi + 1) \div 2
         IN  IF mid * mid <= n THEN SqrtSearch(n, mid, hi)
                               ELSE SqrtSearch(n, lo, mid - 1)

\* the largest k with k*k <= n
ISqrt(n) == SqrtSearch(n, 0, Min(n, 40000))

\* hypot(dx, dy), squared
HypotSq(dx, dy) == dx * dx + dy * dy

\* variant: rounds up instead of truncating
IntCastCeil(dSq) ==
    LET k == ISqrt(dSq) IN IF k * k = dSq THEN k ELSE k + 1

\* (int)d for the double d >= 0 whose square is dSq: truncation toward zero
IntCast(dSq) == ISqrt(dSq)

\* integers up to 2^24 are exact as 32-bit floats
FloatExact == 16777216

\* (jfloat)n for an int n: exact up to 2^24, then rounded to an even neighbour
\* (ties to the even mantissa), which is what holds up to 2^25
JFloat(n) ==
    IF Abs(n) <= FloatExact \/ n % 2 = 0 THEN n
    ELSE IF ((n - 1) \div 2) % 2 = 0 THEN n - 1 ELSE n + 1

---------------------------------------------------------------------------
(* The call log *)

Call(op, arg) == [op |-> op, arg |-> arg]

Called(op) == \E i \in DOMAIN calls : calls[i].op = op

CountCalls(op, arg) ==
    Cardinality({i \in DOMAIN calls : calls[i] = Call(op, arg)})

\* the calls that read the characters of a path string
ReadOps == {"imread", "ALOGE", "imwrite"}

PathNames == {"imagePath", "inputPath", "outputPath"}

\* a path string is read after ReleaseStringUTFChars gave it back
ReadAfterRelease(s) ==
    \E i, j \in DOMAIN calls :
        /\ i < j
        /\ calls[i] = Call("ReleaseStringUTFChars", s)
        /\ calls[j].op \in ReadOps
        /\ calls[j].arg = s

---------------------------------------------------------------------------
(* detectDocumentContour: contour selection *)

\* contourArea(poly), doubled: |sum of x_i*y_{i+1} - x_{i+1}*y_i|
RECURSIVE Shoelace(_, _)
Shoelace(poly, i) ==
    IF i > Len(poly) THEN 0
    ELSE LET p == poly[i]
             q == poly[IF i = Len(poly) THEN 1 ELSE i + 1]
         IN  p.x * q.y - q.x * p.y + Shoelace(poly, i + 1)

contourArea(poly) == IF Len(poly) = 0 THEN 0 ELSE Abs(Shoelace(poly, 1))

\* the 1000 of `if (area < 1000) continue;`
MinArea == 1000

\* approxPolyDP(contours[i], approx, 0.02 * arcLength, true): the library's
\* answer travels with the contour
approxPolyDP(c) == c.approx

\* variant: the area filter left out
TooSmallNoFilter(c) == FALSE

\* `if (area < 1000) continue;` -- TRUE when the contour is skipped

TooSmall(c) == contourArea(c.pts) < 2 * MinArea

\* variant: >= in place of >
BetterAlsoEqual(approx, m) == Len(approx) = 4 /\ contourArea(approx) >= m

\* `approx.size() == 4 && fabs(contourArea(approx)) > maxArea`

Better(approx, m) == Len(approx) = 4 /\ contourArea(approx) > m

\* the for loop of lines 36-45 from contour i on, with the running
\* state [maxArea, best]
RECURSIVE SelectFrom(_, _, _)
SelectFrom(cs, i, st) ==
    IF i > Len(cs) THEN st
    ELSE IF TooSmall(cs[i]) THEN SelectFrom(cs, i + 1, st)
    ELSE LET approx == approxPolyDP(cs[i])
         IN  IF Better(approx, st.maxArea)
             THEN SelectFrom(cs, i + 1,
                             [maxArea |-> contourArea(approx), best |-> approx])
             ELSE SelectFrom(cs, i + 1, st)

---------------------------------------------------------------------------
(* detectDocumentContour: corner ordering *)

Perms4 ==
    {p \in [1..4 -> 1..4] : \A i, j \in 1..4 : i # j => p[i] # p[j]}

Permute(s, p) == [i \in 1..4 |-> s[p[i]]]

\* std::sort(best.begin(), best.end(), a.y < b.y): some rearrangement of the
\* four points in which no point comes before one of smaller y; std::sort is
\* not stable, so points of equal y may end in either order
SortByY(s) ==
    {t \in {Permute(s, p) : p \in Perms4} :
        \A i \in 1..3 : ~(t[i + 1].y < t[i].y)}

\* variant: left and right exchanged
OrderCornersLeftRightSwapped(s) ==
    LET tl == IF s[1].x < s[2].x THEN s[2] ELSE s[1]
        tr == IF s[1].x < s[2].x THEN s[1] ELSE s[2]
        bl == IF s[3].x < s[4].x THEN s[3] ELSE s[4]
        br == IF s[3].x < s[4].x THEN s[4] ELSE s[3]
    IN  <<JFloat(tl.x), JFloat(tl.y), JFloat(tr.x), JFloat(tr.y),
          JFloat(br.x), JFloat(br.y), JFloat(bl.x), JFloat(bl.y)>>

\* lines 56-65: tl, tr, bl, br from the sorted vector, written to coords
OrderCorners(s) ==
    LET tl == IF s[1].x < s[2].x THEN s[1] ELSE s[2]
        tr == IF s[1].x < s[2].x THEN s[2] ELSE s[1]
        bl == IF s[3].x < s[4].x THEN s[3] ELSE s[4]
        br == IF s[3].x < s[4].x THEN s[4] ELSE s[3]
    IN  <<JFloat(tl.x), JFloat(tl.y), JFloat(tr.x), JFloat(tr.y),
          JFloat(br.x), JFloat(br.y), JFloat(bl.x), JFloat(bl.y)>>

---------------------------------------------------------------------------
(* What findContours and approxPolyDP may hand back *)

Rect(w, h) == <<Pt(0, 0), Pt(w, 0), Pt(w, h), Pt(0, h)>>

Same(poly) == [pts |-> poly, approx |-> poly]

\* the rotated rectangle of the 800x600 scenario
ScenarioQuad == <<Pt(100, 120), Pt(650, 90), Pt(680, 540), Pt(80, 560)>>

\* its four corners in every order (approxPolyDP itself only rotates or
\* reverses the contour's order; the other orders exercise the ordering)
ScenarioContours ==
    {[pts |-> ScenarioQuad, approx |-> Permute(ScenarioQuad, p)] : p \in Perms4}

\* area 1020 as traced, 900 once the four shallow bumps are simplified away
Bumpy ==
    [pts    |-> <<Pt(2, 2), Pt(17, 0), Pt(32, 2), Pt(34, 17),
                  Pt(32, 32), Pt(17, 34), Pt(2, 32), Pt(0, 17)>>,
     approx |-> <<Pt(2, 2), Pt(32, 2), Pt(32, 32), Pt(2, 32)>>]

\* two thin leaves that touch in one pixel, (500,500): area 4000 as traced;
\* simplified to tip, joint, tip, joint, a 4-vertex polygon enclosing nothing
Leaves ==
    [pts    |-> <<Pt(0, 500), Pt(250, 496), Pt(500, 500), Pt(496, 250),
                  Pt(500, 0), Pt(504, 250), Pt(500, 500), Pt(250, 504)>>,
     approx |-> <<Pt(0, 500), Pt(500, 500), Pt(500, 0), Pt(500, 500)>>]

\* a dart: its two upper corners share x, its two lower corners share y
Dart == <<Pt(40, 0), Pt(80, 90), Pt(40, 30), Pt(0, 90)>>

ContourSamples ==
    {Same(Rect(40, 40)),                              \* area 1600
     Same(Rect(40, 25)),                              \* area 1000, not below
     Same(Rect(31, 31)),                              \* area  961, below
     Same(Rect(50, 30)),                              \* area 1500
     Same(<<Pt(0, 0), Pt(60, 0), Pt(0, 60)>>),        \* 3 vertices
     Same(<<Pt(0, 0), Pt(40, 0), Pt(60, 30), Pt(40, 60), Pt(0, 60)>>),
     Same(Dart), Bumpy, Leaves}
    \cup ScenarioContours

RECURSIVE SeqsUpTo(_, _)
SeqsUpTo(S, n) ==
    IF n = 0 THEN {<<>>}
    ELSE LET shorter == SeqsUpTo(S, n - 1)
         IN  shorter \cup {Append(s, x) : s \in {t \in shorter : Len(t) = n - 1}, x \in S}

ContourLists == SeqsUpTo(ContourSamples, MaxContours)

---------------------------------------------------------------------------
(* What the caller may hand to enhanceAndWarp *)

GridPoints == {Pt(x, y) : x \in 0..MaxX, y \in 0..MaxY}

Quads ==
    {<<a, b, c, d>> : a \in GridPoints, b \in GridPoints,
                      c \in GridPoints, d \in GridPoints}
    \cup {ScenarioQuad, Rect(4, 3)}

\* the flat array x0, y0, x1, y1, x2, y2, x3, y3
Flat(q) == [i \in 1..8 |-> IF i % 2 = 1 THEN q[(i + 1) \div 2].x ELSE q[i \div 2].y]

PolygonLens == {0} \cup ((8 - MaxShort)..(8 + MaxExtra))

Resize(a, n) == [i \in 1..n |-> IF i <= Len(a) THEN a[i] ELSE 0]

Polygons == {Resize(Flat(q), n) : q \in Quads, n \in PolygonLens}

---------------------------------------------------------------------------
(* enhanceAndWarp *)

\* variant: `len != 8`
InvalidLengthNot8(len) == len # 8

\* `if (len < 8)`

InvalidLength(len) == len < 8

\* env->GetFloatArrayRegion(polygon, 0, 8, pts) and lines 96-97
SrcPoints(poly) == [i \in 1..4 |-> Pt(poly[2 * i - 1], poly[2 * i])]

\* lines 100-102, squared: widthA = |src[2] - src[3]|, widthB = |src[1] - src[0]|
MaxWidth(s) ==
    Max(HypotSq(s[3].x - s[4].x, s[3].y - s[4].y),
        HypotSq(s[2].x - s[1].x, s[2].y - s[1].y))

\* variant: heightA forgotten
MaxHeightOnlyB(s) == HypotSq(s[1].x - s[4].x, s[1].y - s[4].y)

\* lines 104-106, squared: heightA = |src[1] - src[2]|, heightB = |src[0] - src[3]|
MaxHeight(s) ==
    Max(HypotSq(s[2].x - s[3].x, s[2].y - s[3].y),
        HypotSq(s[1].x - s[4].x, s[1].y - s[4].y))

\* variant: the write's result dropped
ReturnAlwaysTrue(o) == "true"

\* `return ok ? JNI_TRUE : JNI_FALSE;`

ReturnValue(o) == IF o THEN "true" ELSE "false"

---------------------------------------------------------------------------
(* The state machine *)

Init ==
    /\ pc = "idle"
    /\ fn = "none"
    /\ calls = <<>>
    /\ imgEmpty = FALSE
    /\ contours = <<>>
    /\ maxArea = 0
    /\ best = <<>>
    /\ coords = <<>>
    /\ polygon = <<>>
    /\ src = <<>>
    /\ maxWidth = 0
    /\ maxHeight = 0
    /\ dsize = <<>>
    /\ ok = FALSE
    /\ result = "none"

warpVars == <<polygon, src, maxWidth, maxHeight, dsize, ok>>

detectVars == <<contours, maxArea, best, coords>>

\* lines 16-18: the path is acquired, the image read, the path released
DetectLoad ==
    /\ pc = "idle"
    /\ \E e \in BOOLEAN : imgEmpty' = e
    /\ fn' = "detect"
    /\ calls' = <<Call("GetStringUTFChars", "imagePath"),
                  Call("imread", "imagePath"),
                  Call("ReleaseStringUTFChars", "imagePath")>>
    /\ pc' = "d_loaded"
    /\ UNCHANGED <<detectVars, warpVars, result>>

\* lines 20-23: the log line formats imagePath with %s, after line 18 has
\* released it; the read is of freed memory, so the call may log anything
\* and return, or fault
DetectLoadFailed ==
    /\ pc = "d_loaded" /\ fn = "detect"
    /\ imgEmpty
    /\ calls' = Append(calls, Call("ALOGE", "imagePath"))
    /\ \E r \in {"null", "crash"} : result' = r
    /\ pc' = "done"
    /\ UNCHANGED <<fn, imgEmpty, detectVars, warpVars>>

\* lines 25-45: edge map, contours, and the selection loop
DetectSelect ==
    /\ pc = "d_loaded" /\ fn = "detect"
    /\ ~imgEmpty
    /\ \E cs \in ContourLists :
        LET st == SelectFrom(cs, 1, [maxArea |-> 0, best |-> <<>>])
        IN  /\ contours' = cs
            /\ maxArea' = st.maxArea
            /\ best' = st.best
    /\ calls' = calls \o <<Call("cvtColor", "img"), Call("GaussianBlur", "gray"),
                           Call("Canny", "blurred"), Call("findContours", "edged")>>
    /\ pc' = "d_selected"
    /\ UNCHANGED <<fn, imgEmpty, coords, warpVars, result>>

\* lines 47-50
DetectNoQuad ==
    /\ pc = "d_selected"
    /\ Len(best) # 4
    /\ result' = "null"
    /\ pc' = "done"
    /\ UNCHANGED <<fn, calls, imgEmpty, detectVars, warpVars>>

\* lines 52-69
DetectOrder ==
    /\ pc = "d_selected"
    /\ Len(best) = 4
    /\ \E s \in SortByY(best) :
        /\ best' = s
        /\ coords' = OrderCorners(s)
    /\ calls' = calls \o <<Call("NewFloatArray", "out"),
                           Call("SetFloatArrayRegion", "out")>>
    /\ result' = "array"
    /\ pc' = "done"
    /\ UNCHANGED <<fn, imgEmpty, contours, maxArea, warpVars>>

\* lines 74-77
WarpLoad ==
    /\ pc = "idle"
    /\ \E e \in BOOLEAN : imgEmpty' = e
    /\ \E p \in Polygons : polygon' = p
    /\ fn' = "warp"
    /\ calls' = <<Call("GetStringUTFChars", "inputPath"),
                  Call("GetStringUTFChars", "outputPath"),
                  Call("imread", "inputPath")>>
    /\ pc' = "w_loaded"
    /\ UNCHANGED <<detectVars, src, maxWidth, maxHeight, dsize, ok, result>>

ReleaseBoth ==
    <<Call("ReleaseStringUTFChars", "inputPath"),
      Call("ReleaseStringUTFChars", "outputPath")>>

\* lines 78-83
WarpLoadFailed ==
    /\ pc = "w_loaded" /\ fn = "warp"
    /\ imgEmpty
    /\ calls' = calls \o <<Call("ALOGE", "inputPath")>> \o ReleaseBoth
    /\ result' = "false"
    /\ pc' = "done"
    /\ UNCHANGED <<fn, imgEmpty, detectVars, warpVars>>

\* lines 85-91
WarpBadPolygon ==
    /\ pc = "w_loaded" /\ fn = "warp"
    /\ ~imgEmpty
    /\ InvalidLength(Len(polygon))
    /\ calls' = calls \o <<Call("GetArrayLength", "polygon"), Call("ALOGE", "len")>>
                      \o ReleaseBoth
    /\ result' = "false"
    /\ pc' = "done"
    /\ UNCHANGED <<fn, imgEmpty, detectVars, warpVars>>

\* lines 85-116: nothing stands between the length check and the warp
WarpTransform ==
    /\ pc = "w_loaded" /\ fn = "warp"
    /\ ~imgEmpty
    /\ ~InvalidLength(Len(polygon))
    /\ LET s == SrcPoints(polygon)
       IN  /\ src' = s
           /\ maxWidth' = MaxWidth(s)
           /\ maxHeight' = MaxHeight(s)
           /\ dsize' = <<IntCast(MaxWidth(s)), IntCast(MaxHeight(s))>>
    /\ calls' = calls \o <<Call("GetArrayLength", "polygon"),
                           Call("GetFloatArrayRegion", "polygon"),
                           Call("getPerspectiveTransform", "src"),
                           Call("warpPerspective", "img")>>
    /\ pc' = "w_warped"
    /\ UNCHANGED <<fn, imgEmpty, detectVars, polygon, ok, result>>

\* lines 118-129
WarpEnhanceAndSave ==
    /\ pc = "w_warped"
    /\ \E o \in BOOLEAN :
        /\ ok' = o
        /\ result' = ReturnValue(o)
    /\ calls' = calls \o <<Call("cvtColor", "warped"),
                           Call("adaptiveThreshold", "enhanced"),
                           Call("imwrite", "outputPath")>>
                      \o ReleaseBoth
    /\ pc' = "done"
    /\ UNCHANGED <<fn, imgEmpty, detectVars, polygon, src, maxWidth, maxHeight, dsize>>

Next ==
    \/ DetectLoad
    \/ DetectLoadFailed
    \/ DetectSelect
    \/ DetectNoQuad
    \/ DetectOrder
    \/ WarpLoad
    \/ WarpLoadFailed
    \/ WarpBadPolygon
    \/ WarpTransform
    \/ WarpEnhanceAndSave

Spec == Init /\ [][Next]_vars

---------------------------------------------------------------------------
(* Vocabulary of the properties *)

\* the quadrilateral as the caller labels it: the array is TL, TR, BR, BL
TL(a) == Pt(a[1], a[2])

TR(a) == Pt(a[3], a[4])

BR(a) == Pt(a[5], a[6])

BL(a) == Pt(a[7], a[8])

DistSq(p, q) == (p.x - q.x) * (p.x - q.x) + (p.y - q.y) * (p.y - q.y)

\* inferred width and height, squared
WidthSq(a) == Max(DistSq(BR(a), BL(a)), DistSq(TR(a), TL(a)))

HeightSq(a) == Max(DistSq(TR(a), BR(a)), DistSq(TL(a), BL(a)))

\* n is the floor, or the ceiling, of the number whose square is sq
IsFloorOfRoot(n, sq) == n >= 0 /\ n * n <= sq /\ sq < (n + 1) * (n + 1)

IsCeilOfRoot(n, sq) == n >= 0 /\ sq <= n * n /\ (n = 0 \/ (n - 1) * (n - 1) < sq)

Collinear(p, q, r) == (q.x - p.x) * (r.y - p.y) = (q.y - p.y) * (r.x - p.x)

\* three (or all four) of the corners lie on one line
ThreeCollinear(a) ==
    \/ Collinear(TL(a), TR(a), BR(a))
    \/ Collinear(TL(a), TR(a), BL(a))
    \/ Collinear(TL(a), BR(a), BL(a))
    \/ Collinear(TR(a), BR(a), BL(a))

IsPermutationOf(s, t) ==
    Len(s) = 4 /\ Len(t) = 4 /\ \E p \in Perms4 : s = Permute(t, p)

\* enhanceAndWarp got past both checks
WarpAccepted == fn = "warp" /\ pc \in {"w_warped", "done"} /\ Len(src) = 4

NoProcessing ==
    /\ ~Called("getPerspectiveTransform")
    /\ ~Called("warpPerspective")
    /\ ~Called("adaptiveThreshold")
    /\ ~Called("imwrite")

\* contour c passes the area filter and simplifies to four vertices
Candidate(c) == contourArea(c.pts) >= 2 * MinArea /\ Len(c.approx) = 4

---------------------------------------------------------------------------
(* The claims *)

\* C1 (as stated; the code does otherwise).  A polygon whose inferred width
\* or height is <= 0 makes enhanceAndWarp return the failure result, and
\* nothing is warped, thresholded or written.
C1_DegenerateRefused ==
    (/\ fn = "warp" /\ ~imgEmpty /\ Len(polygon) >= 8
     /\ (WidthSq(polygon) <= 0 \/ HeightSq(polygon) <= 0))
    => /\ ~Called("warpPerspective")
       /\ ~Called("adaptiveThreshold")
       /\ ~Called("imwrite")
       /\ (pc = "done" => result = "false")

C4_SizeIsCeiling ==
    (WarpAccepted /\ WidthSq(polygon) > 0 /\ HeightSq(polygon) > 0)
    => /\ IsCeilOfRoot(dsize[1], WidthSq(polygon))
       /\ IsCeilOfRoot(dsize[2], HeightSq(polygon))

\* C4 (amended).  The output size asked of the warp is the inferred width by
\* the inferred height, each truncated to a whole number (the floor).
C4_SizeIsFloor ==
    (WarpAccepted /\ WidthSq(polygon) > 0 /\ HeightSq(polygon) > 0)
    => /\ Called("warpPerspective")
       /\ IsFloorOfRoot(dsize[1], WidthSq(polygon))
       /\ IsFloorOfRoot(dsize[2], HeightSq(polygon))

\* width sqrt(5), height sqrt(2): a 2 by 1 image is asked for
C4_Witness ==
    /\ WarpAccepted
    /\ WidthSq(polygon) = 5 /\ HeightSq(polygon) = 2
    /\ dsize = <<2, 1>>

\* C5 (as stated).  For the scenario's quadrilateral the output is 600 by 453.
C5_Scenario600x453 ==
    (WarpAccepted /\ src = ScenarioQuad) => dsize = <<600, 453>>

\* C5 (amended).  For the scenario's quadrilateral maxWidth is dist(BR,BL),
\* between 600 and 601, maxHeight is dist(TR,BR), between 450 and 451, and
\* the output asked for is 600 by 450.
C5_Scenario600x450 ==
    (WarpAccepted /\ src = ScenarioQuad)
    => /\ maxWidth = DistSq(ScenarioQuad[3], ScenarioQuad[4])
       /\ 600 * 600 <= maxWidth /\ maxWidth < 601 * 601
       /\ maxHeight = DistSq(ScenarioQuad[2], ScenarioQuad[3])
       /\ 450 * 450 <= maxHeight /\ maxHeight < 451 * 451
       /\ dsize = <<600, 450>>

C5_Witness ==
    /\ fn = "warp" /\ pc = "done" /\ result = "true"
    /\ src = ScenarioQuad
    /\ dsize = <<600, 450>>

\* C6 (as stated; the code does otherwise).  With three or four corners on
\* one line the operation fails and writes no image.
C6_CollinearRefused ==
    (fn = "warp" /\ pc = "done" /\ ~imgEmpty /\ Len(polygon) >= 8
     /\ ThreeCollinear(polygon))
    => (result = "false" /\ ~Called("imwrite"))

\* C7.  The returned quadrilateral is the simplified polygon of a contour of
\* area >= 1000, has 4 vertices, and no 4-vertex simplified polygon of a
\* contour of area >= 1000 encloses more; contours below 1000 do not count.
C7_LargestCandidate ==
    (fn = "detect" /\ pc = "done" /\ result = "array")
    => \E i \in DOMAIN contours :
        /\ Candidate(contours[i])
        /\ IsPermutationOf(best, contours[i].approx)
        /\ \A j \in DOMAIN contours :
            Candidate(contours[j])
                => contourArea(contours[j].approx) <= contourArea(contours[i].approx)

\* the 900-unit polygon is returned although a 961-unit square, traced from a
\* contour below 1000, was there too
C7_Witness ==
    /\ fn = "detect" /\ pc = "done" /\ result = "array"
    /\ \E j \in DOMAIN contours : contours[j] = Same(Rect(31, 31))
    /\ IsPermutationOf(best, Bumpy.approx)

\* C8 (as stated).  NotFound is returned exactly when no contour of area
\* >= 1000 simplifies to 4 vertices.
C8_NotFoundIffNoCandidate ==
    (fn = "detect" /\ pc = "done" /\ ~imgEmpty)
    => (result = "null" <=> ~\E i \in DOMAIN contours : Candidate(contours[i]))

\* C8 (amended).  For a decoded image, NotFound is returned exactly when no
\* contour of area >= 1000 simplifies to a 4-vertex polygon that encloses a
\* non-zero area; otherwise 8 values are returned.
C8_NotFoundIffNoPositiveCandidate ==
    (fn = "detect" /\ pc = "done" /\ ~imgEmpty)
    => /\ result \in {"null", "array"}
       /\ result = "null" <=>
            ~\E i \in DOMAIN contours :
                Candidate(contours[i]) /\ contourArea(contours[i].approx) > 0
       /\ result = "array" => Len(coords) = 8

\* the only 4-vertex polygon encloses nothing: NotFound
C8_Witness ==
    /\ fn = "detect" /\ pc = "done" /\ ~imgEmpty
    /\ contours = <<Leaves>>
    /\ result = "null"

\* C9.  In enhanceAndWarp the image is examined before the polygon; a failed
\* load or a polygon of fewer than 8 values ends in the failure result with no
\* homography, warp, threshold or write; a write happens only after both
\* checks passed, and then the value returned is the write's success.
C9_ShortCircuit ==
    fn = "warp"
    => /\ imgEmpty => ~Called("GetArrayLength")
       /\ \A i, j \in DOMAIN calls :
            (calls[i].op = "GetArrayLength" /\ calls[j].op = "imread") => j < i
       /\ (imgEmpty \/ Len(polygon) < 8) => NoProcessing
       /\ (pc = "done" /\ (imgEmpty \/ Len(polygon) < 8)) => result = "false"
       /\ Called("imwrite") => (~imgEmpty /\ Len(polygon) >= 8)
       /\ (pc = "done" /\ Called("imwrite")) => (result = "true" <=> ok)
       /\ (pc = "done" /\ result = "true") => Called("imwrite")

\* both checks passed and the encoder failed
C9_Witness ==
    /\ fn = "warp" /\ pc = "done"
    /\ Called("imwrite") /\ ~ok
    /\ result = "false"

\* C10 (as stated; the code does otherwise).  Every acquired path string is
\* released exactly once on every exit path, never more than it was acquired,
\* and is not read after its release.
C10_ReleaseProtocol ==
    \A s \in PathNames :
        /\ CountCalls("ReleaseStringUTFChars", s) <= CountCalls("GetStringUTFChars", s)
        /\ pc = "done" =>
            CountCalls("ReleaseStringUTFChars", s) = CountCalls("GetStringUTFChars", s)
        /\ CountCalls("GetStringUTFChars", s) <= 1
        /\ ~ReadAfterRelease(s)

=============================================================================
